---- MODULE Spec2Model ----
(***************************************************************************)
(* Report ingestion and query service of mock-backend/server.py: the JSON  *)
(* report file, the POST /v1/traffic/avg-speed-report handler and the      *)
(* admin handlers (list, stats, export.csv, clear).                        *)
(*                                                                         *)
(* Text values.  A Python str that the code compares, sorts or parses is a *)
(* sequence of one-character strings.  Timestamps are written without the  *)
(* parts every timestamp of the model shares: "2025-01-01T0h:00:00" is     *)
(* <<h>>, "...Z" is <<h, "Z">>, "...+0k:00" is <<h, "+", k>>.  The shared   *)
(* parts sit at the same positions in every such string, so code-point     *)
(* order of the full strings is code-point order of the short ones.        *)
(* Segment names, tokens and response words, which the code only tests for *)
(* equality and emptiness, are TLA+ strings.                               *)
(*                                                                         *)
(* Optional values: None is <<>>, a present value x is <<x>>.              *)
(* JSON objects are functions from the keys they hold to values; a key the *)
(* object lacks is a key outside the function's domain.                    *)
(***************************************************************************)
EXTENDS Integers, Sequences, FiniteSets, TLC

VARIABLES
    file,    \* avg_speed_reports.json on disk
    req,     \* the request handled last (requests served one at a time)
    resp,    \* its response
    pc,      \* concurrent serving: each worker thread's position
    treq,    \* concurrent serving: each worker's request
    prev,    \* concurrent serving: post_avg_speed's local `prev`
    tresp    \* concurrent serving: each worker's response

vars == <<file, req, resp, pc, treq, prev, tresp>>

\* ------------------------------------------------------------------ bounds

\* Most records the file is let grow to.
MaxStore == 2
\* Largest `limit` query parameter tried.
MaxLimit == 2

\* ------------------------------------------------------------ text values

None == <<>>
Some(x) == <<x>>

\* The characters of the model's timestamps, in code-point order.
Alphabet == <<"+", "0", "1", "2", "Z", "x">>
Digits == {"0", "1", "2"}

Ord(c) == CHOOSE i \in 1..Len(Alphabet) : Alphabet[i] = c
DigitVal(c) == Ord(c) - Ord("0")
DigitChar(n) == Alphabet[Ord("0") + n]

\* Python's str < str: code-point lexicographic order.
RECURSIVE StrLess(_, _)
StrLess(a, b) ==
    IF b = <<>> THEN FALSE
    ELSE IF a = <<>> THEN TRUE
    ELSE IF a[1] # b[1] THEN Ord(a[1]) < Ord(b[1])
    ELSE StrLess(Tail(a), Tail(b))

\* str.replace("Z", "+00:00"): every "Z" of the string is replaced.
RECURSIVE ReplaceZ(_)
ReplaceZ(s) ==
    IF s = <<>> THEN <<>>
    ELSE (IF s[1] = "Z" THEN <<"+", "0">> ELSE <<s[1]>>) \o ReplaceZ(Tail(s))

\* --------------------------------------------------------------- datetime

\* A datetime: wall-clock hour, and the UTC offset when it is timezone-aware.
Datetime(h, aware, off) == [local |-> h, aware |-> aware, off |-> off]
Naive(h) == Datetime(h, FALSE, 0)
Aware(h, off) == Datetime(h, TRUE, off)

Instant(dt) == dt.local - dt.off

\* datetime.fromisoformat: None stands for the ValueError it raises.
fromisoformat(s) ==
    IF Len(s) = 1 /\ s[1] \in Digits
        THEN Some(Naive(DigitVal(s[1])))
    ELSE IF Len(s) = 3 /\ s[1] \in Digits /\ s[2] = "+" /\ s[3] \in Digits
        THEN Some(Aware(DigitVal(s[1]), DigitVal(s[3])))
    ELSE None

_parse_iso(dt_str) ==
    IF dt_str # <<>> /\ dt_str[Len(dt_str)] = "Z"
        THEN fromisoformat(ReplaceZ(dt_str))
        ELSE fromisoformat(dt_str)

\* Faulty variant: wall-clock hours compared, offsets ignored.
DatetimeGeWallClock(a, b) == a.local >= b.local

\* Comparing or subtracting a naive and an aware datetime raises TypeError.
MixRaises(a, b) == a.aware # b.aware
DatetimeGe(a, b) == Instant(a) >= Instant(b)
TotalSeconds(et, st) == (Instant(et) - Instant(st)) * 3600

\* pydantic's JSON form of a datetime: offset zero is written "Z".
DumpDatetime(dt) ==
    IF ~dt.aware THEN <<DigitChar(dt.local)>>
    ELSE IF dt.off = 0 THEN <<DigitChar(dt.local), "Z">>
    ELSE <<DigitChar(dt.local), "+", DigitChar(dt.off)>>

\* ------------------------------------------------------------- the reports

\* AvgSpeedReportDTO, with the fields the handlers read.  The camera ids,
\* distance, speed, version and device id are carried through unread.
DTO(seg, st, et) == [segmentName |-> seg, startedAt |-> st, endedAt |-> et]

\* json.loads(report.model_dump_json())
model_dump_json(report) ==
    [segmentName |-> report.segmentName,
     startedAt   |-> DumpDatetime(report.startedAt),
     endedAt     |-> DumpDatetime(report.endedAt)]

\* dict.get(key, default)
Get(r, k, default) == IF k \in DOMAIN r THEN r[k] ELSE default

\* Valid request bodies tried.
ReportDTOs ==
    { DTO("A", Aware(0, 0), Aware(1, 0)),    \* one hour, UTC
      DTO("a", Aware(2, 0), Aware(1, 0)),    \* same end, ends before it starts
      DTO("A", Aware(1, 0), Aware(2, 2)),    \* "2+2" sorts last, is earliest
      DTO("a", Naive(0),    Aware(2, 0)) }   \* naive start, aware end

\* Authorization headers tried: none, a bearer token, another scheme.
AuthHeaders == { None, Some(<<"Bearer ", "t">>), Some(<<"Basic ", "t">>) }

\* str.startswith on a header split at its first space.
StartsWith(s, p) == Len(s) >= 1 /\ s[1] = p

_auth_ok(authorization) ==
    authorization = None \/ StartsWith(authorization[1], "Bearer ")

\* ---------------------------------------------------------------- the file

\* A JSON document: an array of objects, or something that is no array.
JList(s) == [t |-> "list", v |-> s]
JNumber == [t |-> "number", v |-> <<>>]

Missing == [exists |-> FALSE, parsable |-> FALSE, json |-> JList(<<>>)]
Unparsable == [exists |-> TRUE, parsable |-> FALSE, json |-> JList(<<>>)]
FileOf(j) == [exists |-> TRUE, parsable |-> TRUE, json |-> j]

\* Records only another writer of the file can have put there.
NoEndRecord == [segmentName |-> "A", startedAt |-> <<"0", "Z">>]
BadEndRecord ==
    [segmentName |-> "a", startedAt |-> <<"0", "Z">>, endedAt |-> <<"x">>]

\* What the file may hold when the server starts.
InitialFiles ==
    { Missing, Unparsable, FileOf(JNumber), FileOf(JList(<<>>)),
      FileOf(JList(<<NoEndRecord>>)), FileOf(JList(<<BadEndRecord>>)) }

\* json.load inside try/except: [] for a file that does not parse.
LoadOrEmpty(f) == IF f.parsable THEN f.json ELSE JList(<<>>)

_load_reports(f) == IF ~f.exists THEN JList(<<>>) ELSE LoadOrEmpty(f)

\* ------------------------------------------------------------- responses

\* A response body is a JSON object; an array is held under `items`.
Json(body) == [kind |-> "json", body |-> body]
JsonArray(items) == Json([items |-> items])
\* StreamingResponse(..., media_type="text/csv"): the rows after the header.
Csv(rows) == [kind |-> "csv", body |-> [rows |-> rows]]
\* An exception that leaves the handler: the framework answers 500.
Raised == [kind |-> "exception", body |-> [detail |-> "Internal Server Error"]]

StatusOk == [status |-> "ok"]
Unauthorized == [status |-> "unauthorized"]
ConfirmRequired ==
    [status |-> "confirm required", hint |-> "call with ?confirm=YES"]
Cleared == [status |-> "ok", cleared |-> TRUE]

\* --------------------------------------------------- post_avg_speed, pure

\* `prev` of post_avg_speed before the append: [] unless the file exists,
\* then what json.load gives, [] when it raises.
ReadPrev(f) == IF f.exists THEN LoadOrEmpty(f) ELSE JList(<<>>)

\* Faulty variant: the new record is put first.
AppendReportFront(prevList, report) == <<model_dump_json(report)>> \o prevList

\* prev.append(json.loads(report.model_dump_json()))
AppendReport(prevList, report) == Append(prevList, model_dump_json(report))

\* Faulty variant: only the new record is written.
FileAfterDumpLastOnly(prevJson) ==
    FileOf(JList(SubSeq(prevJson.v, Len(prevJson.v), Len(prevJson.v))))

\* The file after json.dump(prev, f, indent=2, default=str) and its close.
\* Strings and arrays of objects read back as they were written.
FileAfterDump(prevJson) == FileOf(prevJson)

\* ------------------------------------------------------ list_reports, pure

\* `if since:` and `if segment:`: None and the empty string are falsy.
SinceGiven(since) == since # None /\ since[1] # <<>>
SegmentGiven(segment) == segment # None /\ segment[1] # ""

EndParsed(r) == _parse_iso(Get(r, "endedAt", <<>>))
StartParsed(r) == _parse_iso(Get(r, "startedAt", <<>>))

\* _parse_iso(r.get("endedAt", "")) and _parse_iso(r["endedAt"]) >= sdt
SinceRaises(r, sdt) == EndParsed(r) # None /\ MixRaises(EndParsed(r)[1], sdt)
SinceKeeps(r, sdt) == EndParsed(r) # None /\ DatetimeGe(EndParsed(r)[1], sdt)

\* Faulty variant: names compared without regard to case.
Lower(name) == IF name = "A" THEN "a" ELSE name
SegmentMatchesAnyCase(r, segment) ==
    "segmentName" \in DOMAIN r /\ Lower(r.segmentName) = Lower(segment)

\* r.get("segmentName") == segment, for a segment that is a non-empty str
SegmentMatches(r, segment) ==
    "segmentName" \in DOMAIN r /\ r.segmentName = segment

\* r["durationSec"] = (et - st).total_seconds() if st and et else None
DurationRaises(r) ==
    /\ StartParsed(r) # None
    /\ EndParsed(r) # None
    /\ MixRaises(EndParsed(r)[1], StartParsed(r)[1])

DurationOf(r) ==
    IF StartParsed(r) # None /\ EndParsed(r) # None
        THEN Some(TotalSeconds(EndParsed(r)[1], StartParsed(r)[1]))
        ELSE None

WithDuration(r) == ("durationSec" :> DurationOf(r)) @@ r

\* for r in items: r["durationSec"] = ...
RECURSIVE WithDurations(_)
WithDurations(items) ==
    IF items = <<>> THEN <<>>
    ELSE <<WithDuration(items[1])>> \o WithDurations(Tail(items))

\* The sort key: r.get("endedAt", "")
EndKey(r) == Get(r, "endedAt", <<>>)

\* Faulty variant: r goes in front of the elements with its own key.
InsertBeforeEqual(s, r) ==
    LET k == Cardinality({i \in 1..Len(s) : StrLess(EndKey(s[i]), EndKey(r))})
    IN  SubSeq(s, 1, k) \o <<r>> \o SubSeq(s, k + 1, Len(s))

\* One step of a stable sort: r goes behind every element whose key is not
\* greater than its own.
InsertByEnd(s, r) ==
    LET k == Cardinality({i \in 1..Len(s) : ~StrLess(EndKey(r), EndKey(s[i]))})
    IN  SubSeq(s, 1, k) \o <<r>> \o SubSeq(s, k + 1, Len(s))

\* sorted(items, key=lambda r: r.get("endedAt", ""))
RECURSIVE SortedByEnd(_)
SortedByEnd(items) ==
    IF items = <<>> THEN <<>>
    ELSE InsertByEnd(SortedByEnd(SubSeq(items, 1, Len(items) - 1)),
                     items[Len(items)])

\* items[-limit:], with Python's slice arithmetic: a negative start counts
\* from the end and stops at 0, any other start stops at the length.
LastSlice(items, limit) ==
    LET n == Len(items)
        start == -limit
        from == IF start < 0
                    THEN (IF n + start < 0 THEN 0 ELSE n + start)
                    ELSE (IF start > n THEN n ELSE start)
    IN  SubSeq(items, from + 1, n)

\* `sdt` when the since filter runs, None when it is skipped.
SinceBound(since) == IF SinceGiven(since) THEN _parse_iso(since[1]) ELSE None

AfterSince(items, since) ==
    LET sdt == SinceBound(since)
    IN  IF sdt # None
            THEN SelectSeq(items, LAMBDA r : SinceKeeps(r, sdt[1]))
            ELSE items

AfterSegment(items, segment) ==
    IF SegmentGiven(segment)
        THEN SelectSeq(items, LAMBDA r : SegmentMatches(r, segment[1]))
        ELSE items

\* The records left by the two filters.
Filtered(items, since, segment) ==
    AfterSegment(AfterSince(items, since), segment)

ListRaises(items, since, segment) ==
    LET sdt == SinceBound(since)
        kept == Filtered(items, since, segment)
    IN  \/ /\ sdt # None
           /\ \E i \in 1..Len(items) : SinceRaises(items[i], sdt[1])
        \/ \E i \in 1..Len(kept) : DurationRaises(kept[i])

ListBody(items, limit, since, segment) ==
    LastSlice(SortedByEnd(WithDurations(Filtered(items, since, segment))), limit)

\* What list_reports answers over file f.  Iterating a document that is no
\* array raises.
ListResponse(f, limit, since, segment) ==
    LET items == _load_reports(f)
    IN  IF items.t # "list" THEN Raised
        ELSE IF ListRaises(items.v, since, segment) THEN Raised
        ELSE JsonArray(ListBody(items.v, limit, since, segment))

\* ------------------------------------------------- stats and export, pure

SegmentOf(r) == Get(r, "segmentName", "")

\* Counter(r.get("segmentName", "") for r in items)
BySegment(items) ==
    [s \in {SegmentOf(items[i]) : i \in 1..Len(items)} |->
        Cardinality({i \in 1..Len(items) : SegmentOf(items[i]) = s})]

\* reports_stats over what _load_reports returned.
StatsOver(items) ==
    IF items.t # "list" THEN Raised
    ELSE Json([count |-> Len(items.v), bySegment |-> BySegment(items.v)])

StatsResponse(f) == StatsOver(_load_reports(f))

\* {k: r.get(k, "") for k in fieldnames}
CsvRow(r) ==
    [segmentName |-> Get(r, "segmentName", ""),
     startedAt   |-> Get(r, "startedAt", <<>>),
     endedAt     |-> Get(r, "endedAt", <<>>)]

RECURSIVE CsvRows(_)
CsvRows(rows) ==
    IF rows = <<>> THEN <<>> ELSE <<CsvRow(rows[1])>> \o CsvRows(Tail(rows))

ExportResponse(f) ==
    LET rows == _load_reports(f)
    IN  IF rows.t # "list" THEN Raised ELSE Csv(CsvRows(rows.v))

\* ---------------------------------------------------- clear_reports, pure

\* Faulty variant: the token accepted in either case.
ConfirmOkAnyCase(confirm) == confirm \in {"YES", "yes"}

ConfirmOk(confirm) == confirm = "YES"

\* ------------------------------------------------------- request inputs

Limits == 0..MaxLimit
Sinces == { None, Some(<<>>), Some(<<"x">>), Some(<<"1", "Z">>) }
Segments == { None, Some(""), Some("A") }
Confirms == { "NO", "YES", "yes" }

Workers == {1, 2}

\* ---------------------------------------------- requests served in turn

Init ==
    /\ file \in InitialFiles
    /\ req = [op |-> "none"]
    /\ resp = [kind |-> "none"]
    /\ pc = [t \in Workers |-> "idle"]
    /\ treq = [t \in Workers |-> [op |-> "none"]]
    /\ prev = [t \in Workers |-> JList(<<>>)]
    /\ tresp = [t \in Workers |-> [kind |-> "none"]]

threads == <<pc, treq, prev, tresp>>

\* POST /v1/traffic/avg-speed-report
post_avg_speed(report, authorization) ==
    /\ req' = [op |-> "post", report |-> report, authorization |-> authorization]
    /\ IF ~_auth_ok(authorization)
         THEN resp' = Json(Unauthorized) /\ file' = file
       ELSE LET loaded == ReadPrev(file)
            IN  IF loaded.t # "list"
                  THEN resp' = Raised /\ file' = file
                  ELSE /\ Len(loaded.v) < MaxStore
                       /\ file' = FileAfterDump(JList(AppendReport(loaded.v, report)))
                       /\ resp' = Json(StatusOk)
    /\ UNCHANGED threads

\* Faulty variant: the listed records, durationSec included, are written back.
list_reports_saving(limit, since, segment) ==
    /\ req' = [op |-> "list", limit |-> limit, since |-> since, segment |-> segment]
    /\ resp' = ListResponse(file, limit, since, segment)
    /\ file' = IF resp'.kind = "json"
                  THEN FileAfterDump(JList(resp'.body.items))
                  ELSE file
    /\ UNCHANGED threads

\* GET /v1/traffic/reports
list_reports(limit, since, segment) ==
    /\ req' = [op |-> "list", limit |-> limit, since |-> since, segment |-> segment]
    /\ resp' = ListResponse(file, limit, since, segment)
    /\ file' = file
    /\ UNCHANGED threads

\* GET /v1/traffic/reports/stats
reports_stats ==
    /\ req' = [op |-> "stats"]
    /\ resp' = StatsResponse(file)
    /\ file' = file
    /\ UNCHANGED threads

\* GET /v1/traffic/reports/export.csv
export_reports_csv ==
    /\ req' = [op |-> "export"]
    /\ resp' = ExportResponse(file)
    /\ file' = file
    /\ UNCHANGED threads

\* DELETE /v1/traffic/reports
clear_reports(confirm) ==
    /\ req' = [op |-> "clear", confirm |-> confirm]
    /\ IF ~ConfirmOk(confirm)
         THEN resp' = Json(ConfirmRequired) /\ file' = file
         ELSE resp' = Json(Cleared) /\ file' = Missing
    /\ UNCHANGED threads

Next ==
    \/ \E report \in ReportDTOs, authorization \in AuthHeaders :
            post_avg_speed(report, authorization)
    \/ \E limit \in Limits, since \in Sinces, segment \in Segments :
            list_reports(limit, since, segment)
    \/ reports_stats
    \/ export_reports_csv
    \/ \E confirm \in Confirms : clear_reports(confirm)

Spec == Init /\ [][Next]_vars

\* ------------------------------------------- requests served concurrently
\* The handlers are plain `def`s, which the framework runs on a pool of
\* threads: the steps of two requests interleave at every access to the
\* file.  Each worker serves one request.  The file system is POSIX: a
\* removed file stays open for the thread that holds a handle to it.

SetWorker(t, at, response) ==
    /\ pc' = [pc EXCEPT ![t] = at]
    /\ tresp' = [tresp EXCEPT ![t] = response]

\* A request arrives; post_avg_speed's _auth_ok test.
w_post_begin(t, report, authorization) ==
    /\ pc[t] = "idle"
    /\ treq' = [treq EXCEPT ![t] =
            [op |-> "post", report |-> report, authorization |-> authorization]]
    /\ IF _auth_ok(authorization)
         THEN SetWorker(t, "post_exists", tresp[t])
         ELSE SetWorker(t, "done", Json(Unauthorized))
    /\ UNCHANGED <<file, req, resp, prev>>

\* prev = []; if os.path.exists(REPORTS_FILE):
w_post_exists(t) ==
    /\ pc[t] = "post_exists"
    /\ prev' = [prev EXCEPT ![t] = JList(<<>>)]
    /\ SetWorker(t, IF file.exists THEN "post_open" ELSE "post_append", tresp[t])
    /\ UNCHANGED <<file, req, resp, treq>>

\* with open(REPORTS_FILE, "r") as f: try json.load(f) except: prev = []
\* The open is outside the try: a file removed since the test raises.
w_post_open(t) ==
    /\ pc[t] = "post_open"
    /\ IF file.exists
         THEN /\ prev' = [prev EXCEPT ![t] = LoadOrEmpty(file)]
              /\ SetWorker(t, "post_append", tresp[t])
         ELSE /\ prev' = prev
              /\ SetWorker(t, "done", Raised)
    /\ UNCHANGED <<file, req, resp, treq>>

\* prev.append(...); open(REPORTS_FILE, "w"), which empties the file.
w_post_append(t) ==
    /\ pc[t] = "post_append"
    /\ IF prev[t].t # "list"
         THEN /\ SetWorker(t, "done", Raised)
              /\ UNCHANGED <<prev, file>>
         ELSE /\ prev' = [prev EXCEPT ![t] =
                    JList(AppendReport(prev[t].v, treq[t].report))]
              /\ file' = Unparsable
              /\ SetWorker(t, "post_dump", tresp[t])
    /\ UNCHANGED <<req, resp, treq>>

\* json.dump(prev, f) and the close that flushes it; return {"status": "ok"}.
\* A handle whose file was removed writes to no path.  Text that another
\* writer put there since this handle's open is overwritten from offset 0:
\* the longer text's tail stays, and the result may not parse.
w_post_dump(t) ==
    /\ pc[t] = "post_dump"
    /\ IF ~file.exists THEN file' = file
       ELSE IF ~file.parsable THEN file' = FileAfterDump(prev[t])
       ELSE file' \in {FileAfterDump(prev[t]), Unparsable}
    /\ SetWorker(t, "done", Json(StatusOk))
    /\ UNCHANGED <<req, resp, treq, prev>>

\* reports_stats arrives; _load_reports' os.path.exists test.
w_stats_begin(t) ==
    /\ pc[t] = "idle"
    /\ treq' = [treq EXCEPT ![t] = [op |-> "stats"]]
    /\ IF file.exists
         THEN SetWorker(t, "load_open", tresp[t])
         ELSE SetWorker(t, "done", StatsOver(JList(<<>>)))
    /\ UNCHANGED <<file, req, resp, prev>>

\* try: open and json.load; except: []  (the open is inside the try)
w_load_open(t) ==
    /\ pc[t] = "load_open"
    /\ SetWorker(t, "done", StatsOver(_load_reports(file)))
    /\ UNCHANGED <<file, req, resp, treq, prev>>

\* clear_reports arrives; the confirm test and os.path.exists.
w_clear_begin(t, confirm) ==
    /\ pc[t] = "idle"
    /\ treq' = [treq EXCEPT ![t] = [op |-> "clear", confirm |-> confirm]]
    /\ IF ~ConfirmOk(confirm) THEN SetWorker(t, "done", Json(ConfirmRequired))
       ELSE IF file.exists THEN SetWorker(t, "clear_remove", tresp[t])
       ELSE SetWorker(t, "done", Json(Cleared))
    /\ UNCHANGED <<file, req, resp, prev>>

\* os.remove(REPORTS_FILE): raises when the file is gone by now.
w_clear_remove(t) ==
    /\ pc[t] = "clear_remove"
    /\ IF file.exists
         THEN file' = Missing /\ SetWorker(t, "done", Json(Cleared))
         ELSE file' = file /\ SetWorker(t, "done", Raised)
    /\ UNCHANGED <<req, resp, treq, prev>>

NextConc ==
    \/ \E t \in Workers, report \in ReportDTOs, authorization \in AuthHeaders :
            w_post_begin(t, report, authorization)
    \/ \E t \in Workers : w_post_exists(t)
    \/ \E t \in Workers : w_post_open(t)
    \/ \E t \in Workers : w_post_append(t)
    \/ \E t \in Workers : w_post_dump(t)
    \/ \E t \in Workers : w_stats_begin(t)
    \/ \E t \in Workers : w_load_open(t)
    \/ \E t \in Workers, confirm \in Confirms : w_clear_begin(t, confirm)
    \/ \E t \in Workers : w_clear_remove(t)

SpecConc == Init /\ [][NextConc]_vars

\* ------------------------------------------------------------ properties

\* The persisted sequence, as _load_reports would return it now.
Stored == _load_reports(file).v

Strip(r) == [k \in DOMAIN r \ {"durationSec"} |-> r[k]]

RECURSIVE Stripped(_)
Stripped(s) == IF s = <<>> THEN <<>> ELSE <<Strip(s[1])>> \o Stripped(Tail(s))

IsPrefix(a, b) == Len(a) <= Len(b) /\ SubSeq(b, 1, Len(a)) = a

RECURSIVE IsSubseq(_, _)
IsSubseq(a, b) ==
    IF a = <<>> THEN TRUE
    ELSE IF b = <<>> THEN FALSE
    ELSE IF a[1] = b[1] THEN IsSubseq(Tail(a), Tail(b))
    ELSE IsSubseq(a, Tail(b))

Listed == req.op = "list" /\ resp.kind = "json"
\* The array a list response carries.
Body == resp.body.items

\* C1: an authorised POST that answers ok leaves _load_reports() equal to
\* what it returned before the request followed by the posted report: the
\* report is last and every earlier record keeps its fields and position.
C1_AppendRoundTrip ==
    [][(req'.op = "post" /\ resp' = Json(StatusOk))
        => /\ _load_reports(file').t = "list"
           /\ _load_reports(file').v =
                Append(_load_reports(file).v, model_dump_json(req'.report))]_vars

\* A POST answered ok onto a store that already held a record.
C1_Witness ==
    /\ req.op = "post"
    /\ resp = Json(StatusOk)
    /\ Len(Stored) >= 2
    /\ Stored[Len(Stored)] = model_dump_json(req.report)

\* C2: DELETE with a confirm other than exactly "YES" leaves the file as it
\* was and answers confirm-required; with "YES" the file is gone and
\* _load_reports() returns the empty sequence.
C2_ClearGuard ==
    [][req'.op = "clear"
        => IF req'.confirm = "YES"
             THEN /\ ~file'.exists
                  /\ _load_reports(file') = JList(<<>>)
                  /\ resp' = Json(Cleared)
             ELSE /\ file' = file
                  /\ resp' = Json(ConfirmRequired)]_vars

\* DELETE ?confirm=yes was refused and the records are still there.
C2_Witness ==
    /\ req.op = "clear"
    /\ req.confirm = "yes"
    /\ resp = Json(ConfirmRequired)
    /\ Len(Stored) >= 1

\* C3: list, stats and export never write the file; any request other than
\* a DELETE with confirm = "YES" keeps every persisted record, with its
\* fields, at its position; no persisted record carries durationSec.
C3_Lifecycle ==
    [][/\ req'.op \in {"list", "stats", "export"} => file' = file
       /\ ~(req'.op = "clear" /\ req'.confirm = "YES")
            => IsPrefix(_load_reports(file).v, _load_reports(file').v)
       /\ \A i \in 1..Len(_load_reports(file').v) :
            "durationSec" \notin DOMAIN _load_reports(file').v[i]]_vars

\* A list response that carries durationSec over a store of two records.
C3_Witness ==
    /\ Listed
    /\ Len(Body) >= 1
    /\ "durationSec" \in DOMAIN Body[1]
    /\ Len(Stored) >= 2

\* C4: no request ends in an exception that leaves its handler.
C4_NoUncaughtException == resp.kind # "exception"

Min(a, b) == IF a < b THEN a ELSE b

\* C5: for a non-negative limit the list response is the last
\* min(limit, n) records of the ascending endedAt order of the n records
\* that pass the filters.
C5_LimitTruncation ==
    (Listed /\ req.limit >= 0)
        => LET kept == Filtered(Stored, req.since, req.segment)
               timed == SortedByEnd(WithDurations(kept))
               n == Len(kept)
               m == Min(req.limit, n)
           IN  Body = SubSeq(timed, n - m + 1, n)

AllNamed(body, name) ==
    \A i \in 1..Len(body) :
        "segmentName" \in DOMAIN body[i] /\ body[i].segmentName = name

\* C6 as claimed: whenever a segment parameter is supplied, whatever the
\* string, every record of the response has exactly that segmentName.
C6_SegmentFilterAnyString ==
    (Listed /\ req.segment # None) => AllNamed(Body, req.segment[1])

\* C6 as amended: whenever a non-empty segment parameter is supplied, every
\* record of the response has exactly that segmentName; an empty one is
\* treated as absent and filters nothing.
C6_SegmentFilterNonEmpty ==
    /\ (Listed /\ req.segment # None /\ req.segment[1] # "")
            => AllNamed(Body, req.segment[1])
    /\ (Listed /\ req.segment = Some(""))
            => resp = ListResponse(file, req.limit, req.since, None)

\* segment=A answered with a record while the store also holds segment "a".
C6_Witness ==
    /\ Listed
    /\ req.segment = Some("A")
    /\ Len(Body) >= 1
    /\ \E i \in 1..Len(Stored) : SegmentOf(Stored[i]) = "a"

NotBefore(body, since) ==
    \A i \in 1..Len(body) :
        /\ _parse_iso(since) # None
        /\ "endedAt" \in DOMAIN body[i]
        /\ _parse_iso(body[i].endedAt) # None
        /\ _parse_iso(body[i].endedAt)[1].aware = _parse_iso(since)[1].aware
        /\ Instant(_parse_iso(body[i].endedAt)[1]) >= Instant(_parse_iso(since)[1])

\* Nothing is dropped for its end timestamp: with a limit that cuts nothing,
\* the response holds as many records as pass the segment filter.
NoneDroppedForEnd ==
    req.limit >= Len(Stored)
        => Len(Body) = Len(AfterSegment(Stored, req.segment))

\* C7 as claimed: whenever a since parameter is supplied, every record of
\* the response has a parsable end timestamp not before since; when it is
\* absent no record is dropped for its end timestamp.
C7_SinceFilterAnySupplied ==
    /\ (Listed /\ req.since # None) => NotBefore(Body, req.since[1])
    /\ (Listed /\ req.since = None) => NoneDroppedForEnd

\* C7 as amended: whenever a since parameter that parses as a timestamp is
\* supplied, every record of the response has a parsable end timestamp not
\* before since; when since is absent, empty or does not parse, no record is
\* dropped for its end timestamp.
C7_SinceFilterParsable ==
    /\ (Listed /\ req.since # None /\ _parse_iso(req.since[1]) # None)
            => NotBefore(Body, req.since[1])
    /\ (Listed /\ (req.since = None \/ _parse_iso(req.since[1]) = None))
            => NoneDroppedForEnd

\* since=...T01:00:00Z kept a record and dropped another, nothing else
\* filtering or cutting.
C7_Witness ==
    /\ Listed
    /\ req.since = Some(<<"1", "Z">>)
    /\ req.segment = None
    /\ req.limit >= Len(Stored)
    /\ Len(Body) >= 1
    /\ Len(Body) < Len(Stored)

EndGroup(s, k) == SelectSeq(s, LAMBDA r : EndKey(r) = k)

C9_EndNotBeforeStart ==
    \A i \in 1..Len(Stored) :
        (/\ StartParsed(Stored[i]) # None
         /\ EndParsed(Stored[i]) # None
         /\ StartParsed(Stored[i])[1].aware = EndParsed(Stored[i])[1].aware)
            => Instant(EndParsed(Stored[i])[1]) >= Instant(StartParsed(Stored[i])[1])

PostedOk(t) ==
    pc[t] = "done" /\ treq[t].op = "post" /\ tresp[t] = Json(StatusOk)

Holds(s, r) == \E i \in 1..Len(s) : s[i] = r
Sent(t) == model_dump_json(treq[t].report)

\* Two POSTs of different reports, both answered ok.
BothPosted == PostedOk(1) /\ PostedOk(2) /\ Sent(1) # Sent(2)

\* C10: the read, append and rewrite of two POSTs are not mutually
\* exclusive.  When both are answered ok and the store lacks one of the two
\* reports, neither request's `prev` held the other's report: each read the
\* file before the other wrote it.  Such a run exists (the witness).
C10_LostOnlyByOverlap ==
    (BothPosted /\ ~(Holds(Stored, Sent(1)) /\ Holds(Stored, Sent(2))))
        => ~Holds(prev[1].v, Sent(2)) /\ ~Holds(prev[2].v, Sent(1))

\* Both POSTs answered ok; the store grew by one record and holds only one
\* of the two reports.
C10_Witness ==
    /\ BothPosted
    /\ Len(Stored) = 1
    /\ Holds(Stored, Sent(1)) # Holds(Stored, Sent(2))

====
